---- MODULE Spec2Model ----
(***************************************************************************)
(* A model of rust-ftp: the command parser (command.rs), the per-session   *)
(* login / transfer-mode state machine and the passive data channel        *)
(* (session.rs), and the per-connection worker loop (main.rs).             *)
(***************************************************************************)
EXTENDS Naturals, Sequences, FiniteSets, TLC

\* ------------------------------------------------------------------ bounds
\* Command lines one session reads before the model stops feeding it.
MaxCmds == 4
\* The same for the login-only runs and for the transfer runs.
MaxLoginCmds == 5
MaxTransferCmds == 5
\* Client data connections that may wait, not yet accepted, on one listener.
MaxBacklog == 1
\* The same for each of two connections served at the same time.
MaxPeerCmds == 4
\* Tokens that follow the first token of a line given to the parser.
MaxArgTokens == 3

\* ------------------------------------------------------------- characters
\* A line is a sequence of one-character strings; tokens and arguments are
\* rebuilt from it as strings.
UPPER == <<"A","B","C","D","E","F","G","H","I","J","K","L","M",
           "N","O","P","Q","R","S","T","U","V","W","X","Y","Z">>
LOWER == <<"a","b","c","d","e","f","g","h","i","j","k","l","m",
           "n","o","p","q","r","s","t","u","v","w","x","y","z">>

\* char::to_ascii_lowercase, the comparison key of eq_ignore_ascii_case.
to_ascii_lowercase(c) ==
    IF \E i \in 1..Len(UPPER) : UPPER[i] = c
    THEN LOWER[CHOOSE i \in 1..Len(UPPER) : UPPER[i] = c]
    ELSE c

\* A comparison that tells upper case from lower case.
eq_exact(a, b) == a = b

\* str::eq_ignore_ascii_case
eq_ignore_ascii_case(a, b) ==
    /\ Len(a) = Len(b)
    /\ \A i \in 1..Len(a) : to_ascii_lowercase(a[i]) = to_ascii_lowercase(b[i])

\* char::is_ascii_whitespace: space, tab, line feed, form feed, carriage return.
is_ascii_whitespace(c) == c \in {" ", "\t", "\n", "\f", "\r"}

RECURSIVE to_string(_)
\* The string made of the characters cs.
to_string(cs) == IF cs = <<>> THEN "" ELSE Head(cs) \o to_string(Tail(cs))

RECURSIVE trim_start(_)
trim_start(cs) ==
    IF cs # <<>> /\ is_ascii_whitespace(Head(cs)) THEN trim_start(Tail(cs)) ELSE cs

RECURSIVE trim_end(_)
trim_end(cs) ==
    IF cs # <<>> /\ is_ascii_whitespace(cs[Len(cs)])
    THEN trim_end(SubSeq(cs, 1, Len(cs) - 1))
    ELSE cs

\* str::trim (get_cmd trims the line before it parses it).  Of the characters
\* that occur in the lines below, trim removes exactly the ASCII whitespace.
trim(cs) == trim_end(trim_start(cs))

RECURSIVE split_from(_, _, _, _)
\* Scan cs from position i; cur is the token being read, acc the tokens read.
split_from(cs, i, cur, acc) ==
    IF i > Len(cs)
    THEN IF cur = <<>> THEN acc ELSE Append(acc, cur)
    ELSE IF is_ascii_whitespace(cs[i])
         THEN split_from(cs, i + 1, <<>>, IF cur = <<>> THEN acc ELSE Append(acc, cur))
         ELSE split_from(cs, i + 1, Append(cur, cs[i]), acc)

\* str::split_ascii_whitespace: the non-empty maximal runs of non-whitespace.
split_ascii_whitespace(cs) == split_from(cs, 1, <<>>, <<>>)

RECURSIVE join_without_spaces(_)
\* A join that puts nothing between the strings.
join_without_spaces(strs) ==
    IF strs = <<>> THEN "" ELSE strs[1] \o join_without_spaces(Tail(strs))

RECURSIVE join(_)
\* [String]::join(" ")
join(strs) ==
    IF strs = <<>> THEN ""
    ELSE IF Len(strs) = 1 THEN strs[1]
    ELSE strs[1] \o " " \o join(Tail(strs))

\* ----------------------------------------------------------------- parser
\* commands!(Quit(0), User(1), Pass(1), FakeCmdWithTwoArg(2), Pasv(0), Port(1), List(0))
CommandTable ==
    << [name |-> <<"Q","u","i","t">>, argc |-> 0],
       [name |-> <<"U","s","e","r">>, argc |-> 1],
       [name |-> <<"P","a","s","s">>, argc |-> 1],
       [name |-> <<"F","a","k","e","C","m","d","W","i","t","h","T","w","o","A","r","g">>,
        argc |-> 2],
       [name |-> <<"P","a","s","v">>, argc |-> 0],
       [name |-> <<"P","o","r","t">>, argc |-> 1],
       [name |-> <<"L","i","s","t">>, argc |-> 0] >>

\* Command::from_str (strum EnumString, ascii_case_insensitive): the index of
\* the first variant whose name equals the token ignoring ASCII case, or 0.
from_str(tok) ==
    IF \E i \in 1..Len(CommandTable) : eq_ignore_ascii_case(CommandTable[i].name, tok)
    THEN CHOOSE i \in 1..Len(CommandTable) :
            /\ eq_ignore_ascii_case(CommandTable[i].name, tok)
            /\ \A j \in 1..(i - 1) : ~eq_ignore_ascii_case(CommandTable[j].name, tok)
    ELSE 0

ParseOk(verb, args) == [ok |-> TRUE, verb |-> verb, args |-> args, code |-> 0]
ParseErr(code) == [ok |-> FALSE, verb |-> "", args |-> <<>>, code |-> code]

\* A loop that takes one token for each argument and leaves the others.
collect_args_drops_excess(tokens, args, argc) ==
    IF Len(tokens) >= argc THEN SubSeq(tokens, 1, argc) ELSE tokens

RECURSIVE collect_args(_, _, _)
\* The loop of Command::parse for argc > 0: tokens are the tokens not yet
\* consumed, args the arguments pushed so far.
collect_args(tokens, args, argc) ==
    IF Len(args) + 1 = argc
    THEN LET last_argument == join(tokens)
         IN  IF last_argument # "" THEN Append(args, last_argument) ELSE args
    ELSE IF tokens # <<>>
         THEN collect_args(Tail(tokens), Append(args, Head(tokens)), argc)
         ELSE args

\* Command::parse without the check of lines 65-67.
parse_without_arity_check(s) ==
    LET tokens == split_ascii_whitespace(s)
    IN  IF tokens = <<>> THEN ParseErr(500)
        ELSE LET v == from_str(tokens[1])
                 rest == [i \in 1..(Len(tokens) - 1) |-> to_string(tokens[i + 1])]
             IN  IF v = 0 THEN ParseErr(500)
                 ELSE LET verb == to_string(CommandTable[v].name)
                          argc == CommandTable[v].argc
                      IN  IF argc = 0
                          THEN LET arg == join(rest)
                               IN  IF arg = "" THEN ParseOk(verb, <<>>)
                                   ELSE ParseOk(verb, <<arg>>)
                          ELSE ParseOk(verb, collect_args(rest, <<>>, argc))

\* Command::parse
parse(s) ==
    LET tokens == split_ascii_whitespace(s)
    IN  IF tokens = <<>> THEN ParseErr(500)
        ELSE LET v == from_str(tokens[1])
                 rest == [i \in 1..(Len(tokens) - 1) |-> to_string(tokens[i + 1])]
             IN  IF v = 0 THEN ParseErr(500)
                 ELSE LET verb == to_string(CommandTable[v].name)
                          argc == CommandTable[v].argc
                      IN  IF argc = 0
                          THEN LET arg == join(rest)
                               IN  IF arg = "" THEN ParseOk(verb, <<>>)
                                   ELSE ParseOk(verb, <<arg>>)
                          ELSE LET args == collect_args(rest, <<>>, argc)
                               IN  IF Len(args) < argc THEN ParseErr(501)
                                   ELSE ParseOk(verb, args)

\* Session::get_cmd on a line that was read: trim, then parse.
get_cmd(line) == parse(trim(line))

\* ---------------------------------------------------------------- session
\* Control connections the acceptor has handed to a worker.  Spec, SpecLogin
\* and SpecTransfer run the worker of "s1"; the worker of "s2" stays where
\* Session::new left it.
Sessions == {"s1", "s2"}

\* The port numbers the operating system can hand out in this model.
Ports == {256, 20000, 65535}

FAKE_USER == "anonymous"
FAKE_PASS == "anonymous"

\* A credential check that forgets the username.
fake_user_valid_password_only(username, password) == password = FAKE_PASS

fake_user_valid(username, password) == username = FAKE_USER /\ password = FAKE_PASS

\* enum LoginStatus
Unloggedin == [tag |-> "Unloggedin", name |-> ""]
Username(name) == [tag |-> "Username", name |-> name]
Loggedin(name) == [tag |-> "Loggedin", name |-> name]

\* enum TransferMode
NotSpecified == [tag |-> "NotSpecified", port |-> 0]
Pasv(port) == [tag |-> "Pasv", port |-> port]

\* A response: its code, and for 227 the two port bytes of the address tuple.
Resp(code) == [code |-> code, p1 |-> 0, p2 |-> 0]
\* A 227 whose two port numbers are in the wrong order.
PasvMode227_swapped(port) == [code |-> 227, p1 |-> port % 256, p2 |-> port \div 256]

PasvMode227(port) == [code |-> 227, p1 |-> port \div 256, p2 |-> port % 256]

\* What a session did, in order: the history its claims are stated over.
ReadEv(cmd) == [ev |-> "read", ok |-> cmd.ok, verb |-> cmd.verb, args |-> cmd.args]
SendEv(resp) == [ev |-> "send", code |-> resp.code, p1 |-> resp.p1, p2 |-> resp.p2]
AcceptEv(port) == [ev |-> "accept", port |-> port]
DataEv == [ev |-> "data"]
DataCloseEv == [ev |-> "dclose"]

VARIABLES
    session,    \* session[s]: the worker of connection s and its Session value
    backlog,    \* backlog[p]: client connections waiting on the listener of port p
    input,      \* the argument drawn for parse / for the serialization, else <<>>
    output      \* <<>>, or the one-element sequence of what was computed from input

vars == <<session, backlog, input, output>>

\* Session::new, and a worker that has not yet written the greeting.
\*   pc            where the worker is: "greet", "read" (blocked in get_cmd),
\*                 "pasv_bind", "pasv_store", "list_accept", "list_150",
\*                 "list_data", "list_226", "closed"
\*   exit          why the worker ended ("" while it runs)
\*   listeners     ports of the TcpListeners this worker holds bound
\*   port          the local `port` of exec_pasv / the listener taken by LIST
\*   stream        the accepted data connection: "none" or "open"
new ==
    [ pc |-> "greet", exit |-> "",
      login_status |-> Unloggedin, transfer_mode |-> NotSpecified,
      listeners |-> {}, port |-> 0, stream |-> "none", log |-> <<>> ]

Init ==
    /\ session = [s \in Sessions |-> new]
    /\ backlog = [p \in Ports |-> 0]
    /\ input = <<>>
    /\ output = <<>>

\* A worker that ends with its listeners and data connection left open.
Drop_keeps_listeners(self, why) == [self EXCEPT !.pc = "closed", !.exit = why]

\* The worker ends: the Session is dropped, and with it the control
\* connection, every listener it holds and the data connection.
Drop(self, why) ==
    [self EXCEPT !.pc = "closed", !.exit = why, !.listeners = {},
                 !.port = 0, !.stream = "none"]

\* Session::send_msg_check_crlf: the message is written (a "send" event of
\* the log, whether or not the client gets it); ok is whether write_all and
\* flush succeeded.  On failure the `?` of the caller ends the worker.
send_msg_check_crlf(self, resp, ok) ==
    LET written == [self EXCEPT !.log = Append(@, SendEv(resp))]
    IN  IF ok THEN written ELSE Drop(written, "ctrl_write")

\* A handler's result: Ok(response) or Err.
HOk(self, resp) == [self |-> self, ok |-> TRUE, resp |-> resp, why |-> ""]
HErr(self, why) == [self |-> self, ok |-> FALSE, resp |-> Resp(0), why |-> why]
\* The handler has not returned yet: it goes on at self.pc.
HMore(self) == [self |-> self, ok |-> TRUE, resp |-> Resp(0), why |-> "more"]

\* A permission check that lets a session with a username but no password pass.
check_permission_after_user(self) == self.login_status.tag # "Unloggedin"

\* check_permission_or_return!: TRUE when the handler may go on.
check_permission(self) == self.login_status.tag = "Loggedin"

\* exec_user that lets a logged-in session start a new login.
exec_user_relogin(self, args) ==
    HOk([self EXCEPT !.login_status = Username(args[1])], Resp(331))

\* Session::exec_user
exec_user(self, args) ==
    LET username == args[1]
    IN  IF self.login_status.tag = "Loggedin"
        THEN HOk(self, Resp(530))
        ELSE HOk([self EXCEPT !.login_status = Username(username)], Resp(331))

\* exec_pass that keeps the stored username after a failed check.
exec_pass_keeps_username(self, args) ==
    LET passwd == args[1]
    IN  CASE self.login_status.tag = "Unloggedin" -> HOk(self, Resp(503))
          [] self.login_status.tag = "Loggedin" -> HOk(self, Resp(230))
          [] self.login_status.tag = "Username" ->
                IF fake_user_valid(self.login_status.name, passwd)
                THEN HOk([self EXCEPT !.login_status = Loggedin(self.login_status.name)],
                         Resp(230))
                ELSE HOk(self, Resp(530))

\* exec_pass that accepts the valid password with no USER before it.
exec_pass_without_user(self, args) ==
    LET passwd == args[1]
    IN  CASE self.login_status.tag = "Unloggedin" ->
                IF passwd = FAKE_PASS
                THEN HOk([self EXCEPT !.login_status = Loggedin(FAKE_USER)], Resp(230))
                ELSE HOk(self, Resp(503))
          [] self.login_status.tag = "Loggedin" -> HOk(self, Resp(230))
          [] self.login_status.tag = "Username" ->
                IF fake_user_valid(self.login_status.name, passwd)
                THEN HOk([self EXCEPT !.login_status = Loggedin(self.login_status.name)],
                         Resp(230))
                ELSE HOk([self EXCEPT !.login_status = Unloggedin], Resp(530))

\* Session::exec_pass
exec_pass(self, args) ==
    LET passwd == args[1]
    IN  CASE self.login_status.tag = "Unloggedin" -> HOk(self, Resp(503))
          [] self.login_status.tag = "Loggedin" -> HOk(self, Resp(230))
          [] self.login_status.tag = "Username" ->
                IF fake_user_valid(self.login_status.name, passwd)
                THEN HOk([self EXCEPT !.login_status = Loggedin(self.login_status.name)],
                         Resp(230))
                ELSE HOk([self EXCEPT !.login_status = Unloggedin], Resp(530))

\* exec_port that asks for a login first, as exec_pasv and exec_list do.
exec_port_checks_permission(self, args) ==
    IF ~check_permission(self) THEN HOk(self, Resp(530)) ELSE HOk(self, Resp(502))

\* Session::exec_port: 502, with no permission check and no change.
exec_port(self, args) == HOk(self, Resp(502))

\* unreachable!(): the worker thread panics.
exec_fakecmdwithtwoarg(self, args) == HErr(self, "panic")

\* -------------------------------------------------------------- the lines
cCRLF == <<"\r", "\n">>
cSP == <<" ">>
cANONYMOUS == <<"a","n","o","n","y","m","o","u","s">>
cBOB == <<"b","o","b">>

\* Lines a client sends, as read_line returns them.
LineUserValid == <<"U","S","E","R">> \o cSP \o cANONYMOUS \o cCRLF
LineUserOther == <<"u","s","e","r">> \o cSP \o cBOB \o cCRLF
LinePassValid == <<"P","A","S","S">> \o cSP \o cANONYMOUS \o cCRLF
LinePassWrong == <<"P","a","s","s">> \o cSP \o cBOB \o cCRLF
LinePasv == <<"P","A","S","V">> \o cCRLF
LineList == <<"L","I","S","T">> \o cCRLF
LinePort == <<"P","O","R","T">> \o cSP \o <<"1",",","2">> \o cCRLF
LineQuit == <<"Q","U","I","T">> \o cCRLF
LineQuitText == <<"q","U","i","T">> \o cSP \o <<"b","y","e">> \o cSP \o cBOB \o cCRLF
LineEmpty == cCRLF
LineUnknown == <<"N","O","O","P">> \o cCRLF
LineUserNoArg == <<"U","S","E","R">> \o cSP \o cCRLF
LineFake ==
    <<"F","a","k","e","C","m","d","W","i","t","h","T","w","o","A","r","g">>
        \o cSP \o <<"a">> \o cSP \o <<"b">> \o cCRLF

Lines ==
    { LineUserValid, LineUserOther, LinePassValid, LinePassWrong, LinePasv, LineList,
      LinePort, LineQuit, LineQuitText, LineEmpty, LineUnknown, LineUserNoArg, LineFake }

\* The USER and PASS lines among them.
LoginLines == {LineUserValid, LineUserOther, LinePassValid, LinePassWrong}

\* The lines of a client that logs in and transfers.
TransferLines == {LineUserValid, LinePassValid, LinePasv, LineList, LinePort, LineQuit}

\* What get_cmd returns for each line, computed once.
Parsed == [line \in Lines |-> get_cmd(line)]

\* ------------------------------------------------------------- the worker
Reads(log) == Len(SelectSeq(log, LAMBDA e : e.ev = "read"))

\* Ports on which some session holds a bound listener.
BoundPorts(ss) == UNION {ss[s].listeners : s \in Sessions}

\* The worker of s moves to next; connections waiting on a listener that is
\* no longer bound are reset by the operating system.
Becomes(s, next, waiting) ==
    /\ session' = [session EXCEPT ![s] = next]
    /\ backlog' = [p \in Ports |-> IF p \in BoundPorts(session') THEN waiting[p] ELSE 0]
    /\ UNCHANGED <<input, output>>

\* get_cmd returned a line: the worker is in the loop of serve_one_client and
\* the model still feeds it lines.
Reading(s, max) == session[s].pc = "read" /\ Reads(session[s].log) < max

\* The session once the line has been read and parsed to cmd.
Got(s, cmd) == [session[s] EXCEPT !.log = Append(@, ReadEv(cmd))]

\* serve_one_client, lines 55-56: `exec_cmd(cmd)?` then `send_msg_check_crlf(resp)?`
Finish(h, ok) ==
    IF h.why = "more" THEN h.self
    ELSE IF h.ok
    THEN LET sent == send_msg_check_crlf(h.self, h.resp, ok)
         IN  IF ok THEN [sent EXCEPT !.pc = "read"] ELSE sent
    ELSE Drop(h.self, h.why)

\* serve_one_client, line 48: the greeting.
Greeting(s) ==
    /\ session[s].pc = "greet"
    /\ \E ok \in BOOLEAN : Becomes(s, Finish(HOk(session[s], Resp(220)), ok), backlog)

\* A worker that tries to write 421 when get_cmd fails.
GetCmdFails_answers(s) ==
    /\ session[s].pc = "read"
    /\ Becomes(s, Drop(send_msg_check_crlf(session[s], Resp(421), FALSE), "ctrl_read"),
               backlog)

\* get_cmd fails: EOF or an I/O error on the control connection.
GetCmdFails(s) ==
    /\ session[s].pc = "read"
    /\ Becomes(s, Drop(session[s], "ctrl_read"), backlog)

\* serve_one_client, lines 58-60: the line does not parse.
ParseFails(s, line, max) ==
    LET cmd == Parsed[line]
    IN  /\ Reading(s, max)
        /\ ~cmd.ok
        /\ \E ok \in BOOLEAN :
              Becomes(s, Finish(HOk(Got(s, cmd), Resp(cmd.code)), ok), backlog)

\* exec_quit that writes 221 and also returns it as its response.
exec_quit_writes_twice(self, args, ok) ==
    LET sent == send_msg_check_crlf(self, Resp(221), ok)
    IN  IF ok THEN HOk(sent, Resp(221)) ELSE HErr(sent, "ctrl_write")

\* exec_quit that hands 221 back as an ordinary response.
exec_quit_returns_ok(self, args, ok) == HOk(self, Resp(221))

\* Session::exec_quit: 221 is written by the handler itself, which then
\* returns Err("quit").
exec_quit(self, args, ok) ==
    LET sent == send_msg_check_crlf(self, Resp(221), ok)
    IN  IF ok THEN HErr(sent, "quit") ELSE HErr(sent, "ctrl_write")

Quit(s, line, max) ==
    LET cmd == Parsed[line]
    IN  /\ Reading(s, max)
        /\ cmd.ok /\ cmd.verb = "Quit"
        /\ \E ok \in BOOLEAN :
              Becomes(s, Finish(exec_quit(Got(s, cmd), cmd.args, ok), TRUE), backlog)

User(s, line, max) ==
    LET cmd == Parsed[line]
    IN  /\ Reading(s, max)
        /\ cmd.ok /\ cmd.verb = "User"
        /\ \E ok \in BOOLEAN :
              Becomes(s, Finish(exec_user(Got(s, cmd), cmd.args), ok), backlog)

Pass(s, line, max) ==
    LET cmd == Parsed[line]
    IN  /\ Reading(s, max)
        /\ cmd.ok /\ cmd.verb = "Pass"
        /\ \E ok \in BOOLEAN :
              Becomes(s, Finish(exec_pass(Got(s, cmd), cmd.args), ok), backlog)

Port(s, line, max) ==
    LET cmd == Parsed[line]
    IN  /\ Reading(s, max)
        /\ cmd.ok /\ cmd.verb = "Port"
        /\ \E ok \in BOOLEAN :
              Becomes(s, Finish(exec_port(Got(s, cmd), cmd.args), ok), backlog)

FakeCmdWithTwoArg(s, line, max) ==
    LET cmd == Parsed[line]
    IN  /\ Reading(s, max)
        /\ cmd.ok /\ cmd.verb = "FakeCmdWithTwoArg"
        /\ Becomes(s, Finish(exec_fakecmdwithtwoarg(Got(s, cmd), cmd.args), TRUE), backlog)

\* ------------------------------------------------------------ passive mode
\* portpicker::pick_unused_port: Some(port) for a port found free, or None
\* (written 0) when its tries find none.
pick_unused_port(ss) == (Ports \ BoundPorts(ss)) \cup {0}

\* A bind that can succeed on a port another listener is bound to.
bind_shares_port(ss, port) == {TRUE, FALSE}

\* TcpListener::bind: fails on a port that is bound by now; a free port can
\* still be refused by the operating system.
bind(ss, port) == IF port \in BoundPorts(ss) THEN {FALSE} ELSE {TRUE, FALSE}

\* exec_pasv without the permission check.
exec_pasv_unchecked(self, args, picked) ==
    IF picked = 0 THEN HErr(self, "pasv_fail")
    ELSE HMore([self EXCEPT !.pc = "pasv_bind", !.port = picked])

\* Session::exec_pasv up to the pick: picked is what pick_unused_port returned.
exec_pasv(self, args, picked) ==
    IF ~check_permission(self) THEN HOk(self, Resp(530))
    ELSE IF picked = 0 THEN HErr(self, "pasv_fail")
    ELSE HMore([self EXCEPT !.pc = "pasv_bind", !.port = picked])

\* exec_pasv, line 155: the bind.
exec_pasv_bind(self, bound) ==
    IF bound
    THEN HMore([self EXCEPT !.pc = "pasv_store", !.listeners = @ \cup {self.port}])
    ELSE HErr(self, "pasv_fail")

\* exec_pasv_store that never closes the listener it replaces.
exec_pasv_store_leaks(self) ==
    HOk([self EXCEPT !.transfer_mode = Pasv(self.port), !.port = 0],
        PasvMode227(self.port))

\* exec_pasv, lines 157-161: the new listener replaces transfer_mode, whose
\* old value is dropped by the assignment, and 227 is returned.
exec_pasv_store(self) ==
    HOk([self EXCEPT !.transfer_mode = Pasv(self.port),
                     !.listeners = @ \ {self.transfer_mode.port},
                     !.port = 0],
        PasvMode227(self.port))

PasvCmd(s, line, max) ==
    LET cmd == Parsed[line]
    IN  /\ Reading(s, max)
        /\ cmd.ok /\ cmd.verb = "Pasv"
        /\ \E picked \in pick_unused_port(session), ok \in BOOLEAN :
              Becomes(s, Finish(exec_pasv(Got(s, cmd), cmd.args, picked), ok), backlog)

PasvBind(s) ==
    /\ session[s].pc = "pasv_bind"
    /\ \E bound \in bind(session, session[s].port) :
          Becomes(s, Finish(exec_pasv_bind(session[s], bound), TRUE), backlog)

PasvStore(s) ==
    /\ session[s].pc = "pasv_store"
    /\ \E ok \in BOOLEAN : Becomes(s, Finish(exec_pasv_store(session[s]), ok), backlog)

\* ---------------------------------------------------------- data transfer
\* data_connection_wrapper that leaves the transfer mode in place.
data_connection_wrapper_keeps_mode(self) ==
    IF self.transfer_mode.tag = "NotSpecified" THEN HOk(self, Resp(425))
    ELSE HMore([self EXCEPT !.pc = "list_accept", !.port = self.transfer_mode.port])

\* data_connection_wrapper that treats a missing transfer mode as fatal.
data_connection_wrapper_no_mode_fatal(self) ==
    LET transfer_mode == self.transfer_mode
        taken == [self EXCEPT !.transfer_mode = NotSpecified]
    IN  IF transfer_mode.tag = "NotSpecified" THEN HErr(taken, "accept_fail")
        ELSE HMore([taken EXCEPT !.pc = "list_accept", !.port = transfer_mode.port])

\* Session::data_connection_wrapper up to the accept: mem::replace takes the
\* transfer mode and leaves NotSpecified.
data_connection_wrapper(self) ==
    LET transfer_mode == self.transfer_mode
        taken == [self EXCEPT !.transfer_mode = NotSpecified]
    IN  IF transfer_mode.tag = "NotSpecified" THEN HOk(taken, Resp(425))
        ELSE HMore([taken EXCEPT !.pc = "list_accept", !.port = transfer_mode.port])

exec_list(self, args) ==
    IF ~check_permission(self) THEN HOk(self, Resp(530))
    ELSE data_connection_wrapper(self)

\* An accept whose failure is answered 425 and leaves the session running.
accepted_gives_up(self, got) ==
    IF got
    THEN HMore([self EXCEPT !.pc = "list_150", !.stream = "open",
                            !.log = Append(@, AcceptEv(self.port))])
    ELSE HOk(self, Resp(425))

\* data_connection_wrapper, line 174: listener.accept() returned.
accepted(self, got) ==
    IF got
    THEN HMore([self EXCEPT !.pc = "list_150", !.stream = "open",
                            !.log = Append(@, AcceptEv(self.port))])
    ELSE HErr(self, "accept_fail")

\* A transfer that starts without announcing itself with 150.
data_transfer_starts_silent(self, ok) == HMore([self EXCEPT !.pc = "list_data"])

\* data_connection_wrapper, line 175: 150 on the control connection.
data_transfer_starts(self, ok) ==
    LET sent == send_msg_check_crlf(self, Resp(150), ok)
    IN  IF ok THEN HMore([sent EXCEPT !.pc = "list_data"]) ELSE HErr(sent, "ctrl_write")

\* A transfer that goes on to 226 although the write of the listing failed.
data_transfer_logic_ignores_error(self, ok) ==
    IF ok THEN HMore([self EXCEPT !.pc = "list_226", !.log = Append(@, DataEv)])
    ELSE HMore([self EXCEPT !.pc = "list_226"])

\* data_connection_wrapper, line 176: the closure of exec_list writes and
\* flushes the listing on the data connection.
data_transfer_logic(self, ok) ==
    IF ok THEN HMore([self EXCEPT !.pc = "list_226", !.log = Append(@, DataEv)])
    ELSE HErr(self, "data_write")

\* A transfer whose listener stays bound when it is over.
data_transfer_finished_keeps_listener(self) ==
    HOk([self EXCEPT !.stream = "none", !.log = Append(@, DataCloseEv), !.port = 0],
        Resp(226))

\* data_connection_wrapper, line 177: 226 is returned; the data connection
\* and then the listener go out of scope.
data_transfer_finished(self) ==
    HOk([self EXCEPT !.stream = "none", !.log = Append(@, DataCloseEv),
                     !.listeners = @ \ {self.port}, !.port = 0],
        Resp(226))

ListCmd(s, line, max) ==
    LET cmd == Parsed[line]
    IN  /\ Reading(s, max)
        /\ cmd.ok /\ cmd.verb = "List"
        /\ \E ok \in BOOLEAN :
              Becomes(s, Finish(exec_list(Got(s, cmd), cmd.args), ok), backlog)

\* A waiting client connection is accepted.
ListAccept(s) ==
    /\ session[s].pc = "list_accept"
    /\ backlog[session[s].port] > 0
    /\ Becomes(s, Finish(accepted(session[s], TRUE), TRUE),
               [backlog EXCEPT ![session[s].port] = @ - 1])

\* accept() returns an error.
ListAcceptFails(s) ==
    /\ session[s].pc = "list_accept"
    /\ Becomes(s, Finish(accepted(session[s], FALSE), TRUE), backlog)

List150(s) ==
    /\ session[s].pc = "list_150"
    /\ \E ok \in BOOLEAN : Becomes(s, Finish(data_transfer_starts(session[s], ok), TRUE), backlog)

ListData(s) ==
    /\ session[s].pc = "list_data"
    /\ \E ok \in BOOLEAN : Becomes(s, Finish(data_transfer_logic(session[s], ok), TRUE), backlog)

List226(s) ==
    /\ session[s].pc = "list_226"
    /\ \E ok \in BOOLEAN : Becomes(s, Finish(data_transfer_finished(session[s]), ok), backlog)

\* A client opens a data connection to a port on which a listener is bound;
\* to any other port the connection is refused and nothing changes.
ClientConnect(p) ==
    /\ p \in BoundPorts(session)
    /\ backlog[p] < MaxBacklog
    /\ backlog' = [backlog EXCEPT ![p] = @ + 1]
    /\ UNCHANGED <<session, input, output>>

\* ------------------------------------------------------- specifications
\* One step of the worker of s, fed lines of L, at most max of them.
Worker(s, L, max) ==
    \/ Greeting(s)
    \/ GetCmdFails(s)
    \/ \E line \in L : ParseFails(s, line, max)
    \/ \E line \in L : Quit(s, line, max)
    \/ \E line \in L : User(s, line, max)
    \/ \E line \in L : Pass(s, line, max)
    \/ \E line \in L : Port(s, line, max)
    \/ \E line \in L : FakeCmdWithTwoArg(s, line, max)
    \/ \E line \in L : PasvCmd(s, line, max)
    \/ PasvBind(s)
    \/ PasvStore(s)
    \/ \E line \in L : ListCmd(s, line, max)
    \/ ListAccept(s)
    \/ ListAcceptFails(s)
    \/ List150(s)
    \/ ListData(s)
    \/ List226(s)

\* One connection, every line of Lines.
Next ==
    \/ Worker("s1", Lines, MaxCmds)
    \/ \E p \in Ports : ClientConnect(p)

Spec == Init /\ [][Next]_vars

\* One connection whose client sends USER and PASS commands only.
LoginNext ==
    \/ Greeting("s1")
    \/ \E line \in LoginLines : User("s1", line, MaxLoginCmds)
    \/ \E line \in LoginLines : Pass("s1", line, MaxLoginCmds)

SpecLogin == Init /\ [][LoginNext]_vars

\* One connection whose client logs in, enters passive mode and lists.
TransferNext ==
    \/ Greeting("s1")
    \/ \E line \in TransferLines : Quit("s1", line, MaxTransferCmds)
    \/ \E line \in TransferLines : User("s1", line, MaxTransferCmds)
    \/ \E line \in TransferLines : Pass("s1", line, MaxTransferCmds)
    \/ \E line \in TransferLines : Port("s1", line, MaxTransferCmds)
    \/ \E line \in TransferLines : PasvCmd("s1", line, MaxTransferCmds)
    \/ PasvBind("s1")
    \/ PasvStore("s1")
    \/ \E line \in TransferLines : ListCmd("s1", line, MaxTransferCmds)
    \/ ListAccept("s1")
    \/ ListAcceptFails("s1")
    \/ List150("s1")
    \/ ListData("s1")
    \/ List226("s1")
    \/ \E p \in Ports : ClientConnect(p)

SpecTransfer == Init /\ [][TransferNext]_vars

\* The same, with a worker thread that keeps running: accept() returns when
\* a connection waits, and the steps of the transfer are taken.
SpecTransferFair ==
    /\ SpecTransfer
    /\ WF_vars(ListAccept("s1"))
    /\ WF_vars(List150("s1"))
    /\ WF_vars(ListData("s1"))
    /\ WF_vars(List226("s1"))

\* Two connections at the same time, each with its own worker thread
\* (thread::spawn in serve_one_client).  Each client logs in, sends PASV and
\* then PASV, LIST and the two-argument command in any order.
PeerLines == {LineUserValid, LinePassValid, LinePasv, LineList, LineFake}

\* The line is one the client of s sends next.
ClientSends(s, line) ==
    LET n == Reads(session[s].log)
    IN  /\ n = 0 => line = LineUserValid
        /\ n = 1 => line = LinePassValid
        /\ n = 2 => line = LinePasv
        /\ n >= 3 => line \in {LinePasv, LineList, LineFake}

PeerWorker(s) ==
    \/ Greeting(s)
    \/ \E line \in PeerLines : ClientSends(s, line) /\ User(s, line, MaxPeerCmds)
    \/ \E line \in PeerLines : ClientSends(s, line) /\ Pass(s, line, MaxPeerCmds)
    \/ \E line \in PeerLines : ClientSends(s, line) /\ FakeCmdWithTwoArg(s, line, MaxPeerCmds)
    \/ \E line \in PeerLines : ClientSends(s, line) /\ PasvCmd(s, line, MaxPeerCmds)
    \/ PasvBind(s)
    \/ PasvStore(s)
    \/ \E line \in PeerLines : ClientSends(s, line) /\ ListCmd(s, line, MaxPeerCmds)
    \/ ListAccept(s)
    \/ ListAcceptFails(s)
    \/ List150(s)
    \/ ListData(s)
    \/ List226(s)

PeerNext ==
    \/ \E s \in Sessions : PeerWorker(s)
    \/ \E p \in Ports : ClientConnect(p)

SpecPeers == Init /\ [][PeerNext]_vars

\* ------------------------------------------------------------- the parser
\* Lines given to Session::get_cmd, built token by token: input.lead is the
\* whitespace that starts the line, input.toks its tokens, input.seps[i] the
\* whitespace between token i and token i + 1.
FirstTokens ==
    { <<"Q","U","I","T">>,
      <<"q","U","i","T">>,
      <<"U","S","E","R">>,
      <<"u","s","e","r">>,
      <<"P","A","S","S">>,
      <<"p","A","s","s">>,
      <<"P","A","S","V">>,
      <<"p","a","s","v">>,
      <<"P","O","R","T">>,
      <<"L","I","S","T">>,
      <<"l","i","s","t">>,
      <<"F","a","k","e","C","m","d","W","i","t","h","T","w","o","A","r","g">>,
      <<"N","O","O","P">>,
      <<"U","S","E","R","S">> }
ArgTokens == { <<"B","c">>, <<"u","s","e","r">> }
Leads == { <<>>, <<" ">> }
Separators == { <<" ">>, <<" ","\t">> }
Trailers == { <<>>, <<" ">> }

RECURSIVE LineOf(_, _, _)
\* The characters of the line: lead, then the tokens with their separators.
LineOf(lead, toks, seps) ==
    IF toks = <<>> THEN lead
    ELSE IF Len(toks) = 1 THEN lead \o toks[1]
    ELSE LineOf(lead \o toks[1] \o seps[1], Tail(toks), Tail(seps))

ParseInit ==
    /\ session = [s \in Sessions |-> new]
    /\ backlog = [p \in Ports |-> 0]
    /\ input \in {[lead |-> lead, toks |-> <<>>, seps |-> <<>>] : lead \in Leads}
    /\ output = <<>>

\* The client types the first token of the line.
TypeVerb(tok) ==
    /\ output = <<>>
    /\ input.toks = <<>>
    /\ input' = [input EXCEPT !.toks = <<tok>>]
    /\ UNCHANGED <<session, backlog, output>>

\* The client types whitespace and one more token.
TypeArg(sep, tok) ==
    /\ output = <<>>
    /\ input.toks # <<>>
    /\ Len(input.toks) <= MaxArgTokens
    /\ input' = [input EXCEPT !.toks = Append(@, tok), !.seps = Append(@, sep)]
    /\ UNCHANGED <<session, backlog, output>>

\* The client ends the line, and get_cmd parses it.
ParseLine(trailer) ==
    /\ output = <<>>
    /\ output' = <<get_cmd(LineOf(input.lead, input.toks, input.seps) \o trailer \o cCRLF)>>
    /\ UNCHANGED <<session, backlog, input>>

ParseNext ==
    \/ \E tok \in FirstTokens : TypeVerb(tok)
    \/ \E sep \in Separators, tok \in ArgTokens : TypeArg(sep, tok)
    \/ \E trailer \in Trailers : ParseLine(trailer)

SpecParse == ParseInit /\ [][ParseNext]_vars

\* ----------------------------------------------------------- serialization
\* response!(...), response.rs lines 78-95: the response structs, their codes
\* and their default messages.
ResponseTable ==
    << [name |-> "DataTransferStarts150", code |-> 150, has_default |-> TRUE,
        default |-> <<"1","5","0"," ","H","e","r","e"," ","c","o","m","e","s"," ","t","h",
                      "e"," ","d","a","t","a",".">>],
       [name |-> "Greeting220", code |-> 220, has_default |-> TRUE,
        default |-> <<"W","e","l","c","o","m","e"," ","t","o"," ","t","h","e"," ","r","u",
                      "s","t"," ","F","T","P"," ","S","e","r","v","e","r",".">>],
       [name |-> "Goodbye221", code |-> 221, has_default |-> TRUE,
        default |-> <<"G","o","o","d","b","y","e",".">>],
       [name |-> "DataTransferFinished226", code |-> 226, has_default |-> TRUE,
        default |-> <<"D","a","t","a"," ","t","r","a","n","s","f","e","r"," ","f","i","n",
                      "i","s","h","e","d",".">>],
       [name |-> "PasvMode227", code |-> 227, has_default |-> FALSE,
        default |-> <<>>],
       [name |-> "LoginSuccess230", code |-> 230, has_default |-> TRUE,
        default |-> <<"L","o","g","i","n"," ","s","u","c","c","e","s","s","f","u","l",".">>],
       [name |-> "NeedPassword331", code |-> 331, has_default |-> TRUE,
        default |-> <<"P","l","e","a","s","e"," ","s","p","e","c","i","f","y"," ","t","h",
                      "e"," ","p","a","s","s","w","o","r","d",".">>],
       [name |-> "ServiceNotAvalible421", code |-> 421, has_default |-> TRUE,
        default |-> <<"S","e","r","v","i","c","e"," ","n","o","t"," ","a","v","a","i","l",
                      "a","b","l","e",","," ","c","l","o","s","i","n","g"," ","c","o","n",
                      "t","r","o","l"," ","c","o","n","n","e","c","t","i","o","n",".">>],
       [name |-> "NoModeSpecified425", code |-> 425, has_default |-> TRUE,
        default |-> <<"U","s","e"," ","P","A","S","V"," ","f","i","r","s","t",".">>],
       [name |-> "SyntaxErr500", code |-> 500, has_default |-> TRUE,
        default |-> <<"C","o","m","m","a","n","d"," ","n","o","t"," ","e","x","e","c","u",
                      "t","e","d",":"," ","s","y","n","t","a","x"," ","e","r","r","o","r",
                      ".">>],
       [name |-> "InvalidParameter501", code |-> 501, has_default |-> TRUE,
        default |-> <<"I","n","v","a","l","i","d"," ","p","a","r","a","m","e","t","e","r",
                      "s",".">>],
       [name |-> "NotImplementedCommand502", code |-> 502, has_default |-> TRUE,
        default |-> <<"C","o","m","m","a","n","d"," ","n","o","t"," ","i","m","p","l","e",
                      "m","e","n","t","e","d",".">>],
       [name |-> "WrongCmdSequence503", code |-> 503, has_default |-> TRUE,
        default |-> <<"W","r","o","n","g"," ","c","o","m","m","a","n","d"," ","s","e","q",
                      "u","e","n","c","e",".">>],
       [name |-> "NotLoggedin530", code |-> 530, has_default |-> TRUE,
        default |-> <<"P","l","e","a","s","e"," ","l","o","g","i","n"," ","w","i","t","h",
                      " ","U","S","E","R"," ","a","n","d"," ","P","A","S","S",".">>],
       [name |-> "UnknownRespWithoutDefaultMessage999", code |-> 999, has_default |-> FALSE,
        default |-> <<>>] >>

DIGITS == <<"0","1","2","3","4","5","6","7","8","9">>

RECURSIVE code_digits(_)
\* Display of the u16 code: its decimal digits.
code_digits(n) ==
    IF n < 10 THEN <<DIGITS[n + 1]>>
    ELSE code_digits(n \div 10) \o <<DIGITS[(n % 10) + 1]>>

\* A response value: its struct (an index of ResponseTable) and its body,
\* <<>> for None (the default message) or <<text>> for Some(text).
\* ResponseMessage::message
message(resp) ==
    IF resp.body # <<>> THEN resp.body[1] ELSE ResponseTable[resp.kind].default

\* impl_display!: write!(f, "{} {}\r\n", self.code(), self.message())
fmt(resp) ==
    code_digits(ResponseTable[resp.kind].code) \o <<" ">> \o message(resp) \o cCRLF

\* str::ends_with
ends_with(cs, suffix) ==
    /\ Len(cs) >= Len(suffix)
    /\ SubSeq(cs, Len(cs) - Len(suffix) + 1, Len(cs)) = suffix

\* Session::send_msg_check_crlf, lines 101-105: the bytes written for msg.
check_crlf(msg) == IF ~ends_with(msg, cCRLF) THEN msg \o cCRLF ELSE msg

\* Message texts given to new().
Bodies ==
    { <<>>,
      <<"u","n","k","n","o","w","n">>,
      <<"L","o","g","i","n"," ","i","n","c","o","r","r","e","c","t",".">>,
      <<"(","1","2","7",",","0",",","0",",","1",",","7","8",",","3","2",")">>,
      <<"o","k","\r","\n">>,
      <<"o","k","\r">>,
      <<"\r","\n">> }

\* The responses: default() of the structs that have a default message, and
\* new(text) of every struct.
Responses ==
    {[kind |-> k, body |-> <<>>] :
        k \in {i \in 1..Len(ResponseTable) : ResponseTable[i].has_default}}
    \cup {[kind |-> k, body |-> <<text>>] : k \in 1..Len(ResponseTable), text \in Bodies}

SerializeInit ==
    /\ session = [s \in Sessions |-> new]
    /\ backlog = [p \in Ports |-> 0]
    /\ input \in Responses
    /\ output = <<>>

\* A handler turns its response into the String it returns.
Format ==
    /\ output = <<>>
    /\ output' = <<[stage |-> "string", bytes |-> fmt(input)]>>
    /\ UNCHANGED <<session, backlog, input>>

\* serve_one_client hands the String to send_msg_check_crlf.
Send ==
    /\ output # <<>>
    /\ output[1].stage = "string"
    /\ output' = <<[stage |-> "sent", bytes |-> check_crlf(output[1].bytes)]>>
    /\ UNCHANGED <<session, backlog, input>>

SerializeNext == Format \/ Send

SpecSerialize == SerializeInit /\ [][SerializeNext]_vars

\* ------------------------------------------------------- reading the log
\* The commands a session has read, in order.
Cmds(log) == SelectSeq(log, LAMBDA e : e.ev = "read")

IsCmd(e, verb) == e.ev = "read" /\ e.ok /\ e.verb = verb
IsSend(e, code) == e.ev = "send" /\ e.code = code

\* Positions of the log that hold a read / the read of a verb in V.
ReadsAt(log) == {i \in 1..Len(log) : log[i].ev = "read"}
LastReadAt(log) == CHOOSE i \in ReadsAt(log) : \A j \in ReadsAt(log) : j <= i

\* The events that follow the read at position i, up to the next read.
After(log, i) ==
    LET later == {j \in ReadsAt(log) : j > i}
        stop == IF later = {} THEN Len(log) + 1
                ELSE CHOOSE j \in later : \A k \in later : j <= k
    IN  SubSeq(log, i + 1, stop - 1)

\* The response codes written for the command read at position i.
Codes(log, i) ==
    LET sent == SelectSeq(After(log, i), LAMBDA e : e.ev = "send")
    IN  [k \in 1..Len(sent) |-> sent[k].code]

ValidUser(e) == IsCmd(e, "User") /\ e.args = <<FAKE_USER>>
ValidPass(e) == IsCmd(e, "Pass") /\ e.args = <<FAKE_PASS>>

\* ----------------------------------------------------------------- claims
\* C1: on a fresh session fed USER and PASS commands only, the session is
\* Loggedin only if the commands read so far contain a USER with the valid
\* username immediately followed by a PASS with the matching secret; after
\* every other sequence the login status is Unloggedin or Username.
C1_LoginOnlyAfterValidPair ==
    \A s \in Sessions :
        LET cmds == Cmds(session[s].log)
        IN  /\ session[s].login_status.tag \in {"Unloggedin", "Username", "Loggedin"}
            /\ session[s].login_status.tag = "Loggedin" =>
                  \E i \in 1..(Len(cmds) - 1) : ValidUser(cmds[i]) /\ ValidPass(cmds[i + 1])

\* C1 witness: logged in at the second attempt, after a failed first one.
C1_Witness ==
    LET cmds == Cmds(session["s1"].log)
    IN  /\ session["s1"].login_status = Loggedin(FAKE_USER)
        /\ Len(cmds) = 4
        /\ ~ValidUser(cmds[1]) /\ ~ValidPass(cmds[2])
        /\ ValidUser(cmds[3]) /\ ValidPass(cmds[4])


\* The row of the login table for a USER or PASS with argument arg read in
\* login status ls: the next login status and the response code.
LoginTable(ls, verb, arg) ==
    CASE verb = "User" /\ ls.tag = "Unloggedin" -> [to |-> Username(arg), code |-> 331]
      [] verb = "User" /\ ls.tag = "Username" -> [to |-> Username(arg), code |-> 331]
      [] verb = "User" /\ ls.tag = "Loggedin" -> [to |-> ls, code |-> 530]
      [] verb = "Pass" /\ ls.tag = "Username" /\ ls.name = FAKE_USER /\ arg = FAKE_PASS ->
            [to |-> Loggedin(ls.name), code |-> 230]
      [] verb = "Pass" /\ ls.tag = "Username" /\ ~(ls.name = FAKE_USER /\ arg = FAKE_PASS) ->
            [to |-> Unloggedin, code |-> 530]
      [] verb = "Pass" /\ ls.tag = "Unloggedin" -> [to |-> ls, code |-> 503]
      [] verb = "Pass" /\ ls.tag = "Loggedin" -> [to |-> ls, code |-> 230]

\* The step reads a command: the event of that read.
ReadsHere(s) ==
    /\ Len(session'[s].log) > Len(session[s].log)
    /\ session'[s].log[Len(session[s].log) + 1].ev = "read"
ReadHere(s) == session'[s].log[Len(session[s].log) + 1]

\* The step of s writes exactly the response code for the command it reads.
Answers(s, code) ==
    /\ Len(session'[s].log) = Len(session[s].log) + 2
    /\ IsSend(session'[s].log[Len(session[s].log) + 2], code)

\* The worker of s goes on to read the next command; the one way it does
\* not is a failed write of the response on the control connection.
LoopContinues(self) ==
    \/ self.pc = "read"
    \/ self.pc = "closed" /\ self.exit = "ctrl_write"

C2_Step ==
    \A s \in Sessions :
        (ReadsHere(s) /\ (IsCmd(ReadHere(s), "User") \/ IsCmd(ReadHere(s), "Pass"))) =>
            LET row == LoginTable(session[s].login_status, ReadHere(s).verb,
                                  ReadHere(s).args[1])
            IN  /\ session'[s].login_status = row.to
                /\ Answers(s, row.code)

\* A PASS answered 530 leaves Unloggedin: a later PASS with no USER read in
\* between is answered 503, whatever its secret.
C2_PassAfterFailedPass ==
    \A s \in Sessions :
        LET log == session[s].log
        IN  \A i, j \in ReadsAt(log) :
                ( /\ i < j
                  /\ IsCmd(log[i], "Pass") /\ Codes(log, i) = <<530>>
                  /\ IsCmd(log[j], "Pass")
                  /\ \A k \in ReadsAt(log) : (i < k /\ k < j) => ~IsCmd(log[k], "User") )
                => Codes(log, j) = <<503>>

\* A USER answered 331 overwrites the stored name: the PASS read next after
\* it is checked against the argument of that most recent USER.
C2_PassUsesLatestUser ==
    \A s \in Sessions :
        LET log == session[s].log
        IN  \A i, j \in ReadsAt(log) :
                ( /\ i < j
                  /\ IsCmd(log[i], "User") /\ Codes(log, i) = <<331>>
                  /\ IsCmd(log[j], "Pass")
                  /\ \A k \in ReadsAt(log) :
                        (i < k /\ k < j) => ~(IsCmd(log[k], "User") \/ IsCmd(log[k], "Pass")) )
                => Codes(log, j) =
                      IF log[i].args = <<FAKE_USER>> /\ log[j].args = <<FAKE_PASS>>
                      THEN <<230>> ELSE <<530>>

\* C2: every USER or PASS step takes the login status and answers as the row
\* of the login table for (login status, command, argument) says; a PASS
\* after a PASS answered 530, with no USER in between, is answered 503; and
\* the credential check of a PASS uses the argument of the most recent USER.
C2_LoginTableConformance ==
    /\ [][C2_Step]_vars
    /\ [](C2_PassAfterFailedPass /\ C2_PassUsesLatestUser)

\* C2 witness: USER valid (331), PASS wrong (530), PASS valid (503), and the
\* session is Unloggedin.
C2_Witness ==
    LET log == session["s1"].log
        cmds == Cmds(log)
    IN  /\ Len(cmds) = 3
        /\ ValidUser(cmds[1]) /\ IsCmd(cmds[2], "Pass") /\ ~ValidPass(cmds[2])
        /\ ValidPass(cmds[3])
        /\ \E i, j \in ReadsAt(log) :
              /\ i < j /\ j = LastReadAt(log)
              /\ Codes(log, i) = <<530>> /\ Codes(log, j) = <<503>>
        /\ session["s1"].login_status = Unloggedin
        /\ session["s1"].pc = "read"


\* The resources of the data channel a session holds.
DataChannel(self) ==
    [transfer_mode |-> self.transfer_mode, listeners |-> self.listeners,
     port |-> self.port, stream |-> self.stream]

C3_Step ==
    \A s \in Sessions :
        ( /\ ReadsHere(s)
          /\ IsCmd(ReadHere(s), "Pasv") \/ IsCmd(ReadHere(s), "List")
          /\ session[s].login_status.tag \in {"Unloggedin", "Username"} )
        => /\ Answers(s, 530)
           /\ LoopContinues(session'[s])
           /\ session'[s].login_status = session[s].login_status
           /\ DataChannel(session'[s]) = DataChannel(session[s])
           /\ backlog' = backlog

\* C3: a PASV or LIST read while the login status is Unloggedin or Username
\* is answered 530 and nothing else, the worker goes on to the next command
\* (unless the write on the control connection fails), and the login status,
\* the transfer mode, the listeners, the picked port, the data connection and
\* the waiting connections are what they were.
C3_PermissionDenied == [][C3_Step]_vars

\* C3 witness: a LIST read with a username given but no password, answered
\* 530, and the worker is reading again.
C3_Witness ==
    LET log == session["s1"].log
    IN  /\ ReadsAt(log) # {}
        /\ IsCmd(log[LastReadAt(log)], "List")
        /\ Codes(log, LastReadAt(log)) = <<530>>
        /\ session["s1"].login_status.tag = "Username"
        /\ session["s1"].pc = "read"

C4_Step ==
    \A s \in Sessions :
        (ReadsHere(s) /\ IsCmd(ReadHere(s), "Quit")) =>
            /\ Answers(s, 221)
            /\ session'[s].pc = "closed"
            /\ session'[s].exit \in {"quit", "ctrl_write"}

\* Once the worker has ended, its session never changes again.
C4_Ended == \A s \in Sessions : session[s].pc = "closed" => session'[s] = session[s]

\* The ways a worker ends that are failures.
Failures == {"ctrl_read", "ctrl_write", "pasv_fail", "accept_fail", "data_write", "panic"}

C4_State ==
    \A s \in Sessions :
        LET log == session[s].log
        IN  /\ Len(SelectSeq(log, LAMBDA e : IsSend(e, 221))) <= 1
            /\ \A i \in ReadsAt(log) : IsCmd(log[i], "Quit") =>
                  /\ i = Len(log) - 1
                  /\ IsSend(log[Len(log)], 221)
                  /\ session[s].pc = "closed"
            /\ session[s].pc = "closed" =>
                  \/ session[s].exit \in Failures
                  \/ /\ session[s].exit = "quit"
                     /\ ReadsAt(log) # {}
                     /\ IsCmd(log[LastReadAt(log)], "Quit")

\* C4: in every login status and transfer mode, with or without trailing
\* text, a QUIT makes the worker write 221 once and then end: 221 is the last
\* event of the session, nothing is read, executed or written afterwards, and
\* a worker that ended without a failure ended by QUIT.
C4_QuitEndsSession ==
    /\ [][C4_Step /\ C4_Ended]_vars
    /\ []C4_State

\* C4 witness: a logged-in session in passive mode read a QUIT with trailing
\* text, wrote 221 and ended.
C4_Witness ==
    LET self == session["s1"]
        log == self.log
    IN  /\ self.pc = "closed" /\ self.exit = "quit"
        /\ IsCmd(log[LastReadAt(log)], "Quit")
        /\ log[LastReadAt(log)].args # <<>>
        /\ IsSend(log[Len(log)], 221)
        /\ self.login_status.tag = "Loggedin"
        /\ self.transfer_mode.tag = "Pasv"


\* The port a client decodes from a 227 response.
PortOf(e) == e.p1 * 256 + e.p2

\* The port of the last 227 written before position i of the log (0: none).
AdvertisedBefore(log, i) ==
    LET at == {k \in 1..(i - 1) : IsSend(log[k], 227)}
    IN  IF at = {} THEN 0 ELSE PortOf(log[CHOOSE k \in at : \A m \in at : m <= k])

\* C5: for a LIST of a logged-in session in passive mode the events come in
\* this order: the data connection is accepted on the advertised listener,
\* 150 is written, the listing is written on the data connection, the data
\* connection is closed, 226 is written.  150 is never written before the
\* accept, and 226 only after 150 and the whole listing.
C5_ListEventOrder ==
    \A s \in Sessions :
        LET log == session[s].log
        IN  \A i \in 1..Len(log) :
                /\ log[i].ev = "accept" =>
                      /\ i > 1 /\ IsCmd(log[i - 1], "List")
                      /\ log[i].port = AdvertisedBefore(log, i)
                /\ IsSend(log[i], 150) => (i > 1 /\ log[i - 1].ev = "accept")
                /\ log[i].ev = "data" => (i > 1 /\ IsSend(log[i - 1], 150))
                /\ log[i].ev = "dclose" => (i > 1 /\ log[i - 1].ev = "data")
                /\ IsSend(log[i], 226) => (i > 1 /\ log[i - 1].ev = "dclose")

\* C5 witness: a LIST that went through accept, 150, listing, close, 226.
C5_Witness ==
    LET log == session["s1"].log
    IN  /\ Len(log) >= 6
        /\ IsCmd(log[Len(log) - 5], "List")
        /\ log[Len(log) - 4].ev = "accept"
        /\ IsSend(log[Len(log) - 3], 150)
        /\ log[Len(log) - 2].ev = "data"
        /\ log[Len(log) - 1].ev = "dclose"
        /\ IsSend(log[Len(log)], 226)
        /\ session["s1"].pc = "read"

\* C6: from the moment a logged-in session dispatches a LIST until it reads
\* its next command, or ends, the transfer mode is NotSpecified: while it
\* waits for the accept, during the transfer and after every outcome.  And a
\* LIST that follows a LIST answered 150 then 226, with no PASV read in
\* between, is answered 425.
C6_ListResetsTransferMode ==
    \A s \in Sessions :
        LET log == session[s].log
        IN  /\ ( /\ ReadsAt(log) # {}
                 /\ IsCmd(log[LastReadAt(log)], "List")
                 /\ session[s].login_status.tag = "Loggedin" )
               => session[s].transfer_mode = NotSpecified
            /\ session[s].pc \in {"list_accept", "list_150", "list_data", "list_226"}
               => session[s].transfer_mode = NotSpecified
            /\ \A i, j \in ReadsAt(log) :
                  ( /\ i < j
                    /\ IsCmd(log[i], "List") /\ Codes(log, i) = <<150, 226>>
                    /\ IsCmd(log[j], "List")
                    /\ \A k \in ReadsAt(log) : (i < k /\ k < j) => ~IsCmd(log[k], "Pasv") )
                  => Codes(log, j) = <<425>>

\* C6 witness: PASV, a LIST answered 150 and 226, then a second LIST answered
\* 425, and the transfer mode is NotSpecified.
C6_Witness ==
    LET log == session["s1"].log
    IN  /\ session["s1"].pc = "read"
        /\ session["s1"].transfer_mode = NotSpecified
        /\ \E i, j \in ReadsAt(log) :
              /\ i < j /\ j = LastReadAt(log)
              /\ IsCmd(log[i], "List") /\ Codes(log, i) = <<150, 226>>
              /\ IsCmd(log[j], "List") /\ Codes(log, j) = <<425>>
              /\ \A k \in ReadsAt(log) : ~(i < k /\ k < j)

C7_Step ==
    \A s \in Sessions :
        ( /\ ReadsHere(s)
          /\ IsCmd(ReadHere(s), "List")
          /\ session[s].login_status.tag = "Loggedin"
          /\ session[s].transfer_mode = NotSpecified )
        => /\ Answers(s, 425)
           /\ LoopContinues(session'[s])
           /\ session'[s].login_status = session[s].login_status
           /\ session'[s].transfer_mode = NotSpecified
           /\ DataChannel(session'[s]) = DataChannel(session[s])
           /\ backlog' = backlog

\* C7: a LIST read by a logged-in session whose transfer mode is NotSpecified
\* is answered 425 and nothing else (no accept, no 150), the transfer mode is
\* still NotSpecified, the login status and the data channel are unchanged,
\* and the worker goes on to the next command (unless the write on the
\* control connection fails).
C7_ListWithoutMode == [][C7_Step]_vars

\* C7 witness: a logged-in session that never entered passive mode read a
\* LIST, answered 425 and is reading again.
C7_Witness ==
    LET log == session["s1"].log
    IN  /\ ReadsAt(log) # {}
        /\ IsCmd(log[LastReadAt(log)], "List")
        /\ Codes(log, LastReadAt(log)) = <<425>>
        /\ \A i \in 1..Len(log) : ~IsSend(log[i], 227)
        /\ session["s1"].login_status.tag = "Loggedin"
        /\ session["s1"].transfer_mode = NotSpecified
        /\ session["s1"].pc = "read"

\* Reads i < j of the log are two PASV answered 227 with no PASV or LIST read
\* between them nor after the second.
TwoPasv(log, i, j) ==
    /\ i < j
    /\ IsCmd(log[i], "Pasv") /\ Codes(log, i) = <<227>>
    /\ IsCmd(log[j], "Pasv") /\ Codes(log, j) = <<227>>
    /\ \A k \in ReadsAt(log) :
          (k > i /\ k # j) => ~(IsCmd(log[k], "Pasv") \/ IsCmd(log[k], "List"))

C9_Sends421BeforeEnding ==
    \A s \in Sessions :
        (session[s].pc = "closed" /\ session[s].exit \in {"pasv_fail", "accept_fail"}) =>
            /\ session[s].log # <<>>
            /\ IsSend(session[s].log[Len(session[s].log)], 421)

\* The response codes of the recoverable errors.
RecoverableCodes == {500, 501, 502, 503, 530, 425}

\* C10 (as claimed): after a response with the code of a recoverable error
\* the worker reads the next command; a worker ends only by QUIT, by a
\* listener bind or accept failure, or by an I/O error of the control or data
\* connection; no line makes it panic.
C10_RecoverableErrorsNeverEndSession ==
    \A s \in Sessions :
        LET log == session[s].log
        IN  /\ ( /\ ReadsAt(log) # {}
                 /\ Len(Codes(log, LastReadAt(log))) = 1
                 /\ Codes(log, LastReadAt(log))[1] \in RecoverableCodes )
               => \/ session[s].pc = "read"
                  \/ session[s].exit \in {"ctrl_write", "ctrl_read"}
            /\ session[s].pc = "closed" =>
                  session[s].exit \in
                      {"quit", "pasv_fail", "accept_fail", "ctrl_read", "ctrl_write",
                       "data_write"}

C13_Step ==
    \A s \in Sessions :
        (ReadsHere(s) /\ IsCmd(ReadHere(s), "Port")) =>
            /\ Answers(s, 502)
            /\ LoopContinues(session'[s])
            /\ session'[s].login_status = session[s].login_status
            /\ session'[s].transfer_mode = session[s].transfer_mode
            /\ session'[s].pc = "read" =>
                  /\ DataChannel(session'[s]) = DataChannel(session[s])
                  /\ backlog' = backlog

\* A listener advertised by a PASV is still the one a LIST uses when only
\* PORT commands were read between the two: the LIST is not answered 425 and
\* the data connection it accepts is one made to the advertised port.
C13_ListenerStillUsable ==
    \A s \in Sessions :
        LET log == session[s].log
        IN  \A i, j \in ReadsAt(log) :
                ( /\ i < j
                  /\ IsCmd(log[i], "Pasv") /\ Codes(log, i) = <<227>>
                  /\ IsCmd(log[j], "List")
                  /\ \E k \in ReadsAt(log) : i < k /\ k < j
                  /\ \A k \in ReadsAt(log) : (i < k /\ k < j) => IsCmd(log[k], "Port") )
                => /\ Codes(log, j) \in {<<>>, <<150>>, <<150, 226>>}
                   /\ \A k \in (j + 1)..Len(log) :
                         log[k].ev = "accept" => log[k].port = PortOf(log[i + 1])
                   /\ (j = LastReadAt(log) /\ session[s].pc = "list_accept")
                         => session[s].port = PortOf(log[i + 1])
                            /\ PortOf(log[i + 1]) \in session[s].listeners

\* C13: a PORT command is answered 502 and nothing else in every login status
\* and every transfer mode; the login status, the transfer mode, the listeners
\* and the waiting connections are what they were, and the worker goes on to
\* the next command (unless the write on the control connection fails, which
\* ends the worker and closes what it holds).  A
\* passive listener that was bound before the PORT is still bound and is the
\* one a later LIST accepts on.
C13_PortNotImplemented ==
    /\ [][C13_Step]_vars
    /\ []C13_ListenerStillUsable

\* C13 witness: PASV answered 227, then PORT answered 502, then a LIST that
\* accepted a connection on the advertised port and went through 150 and 226.
C13_Witness ==
    LET log == session["s1"].log
    IN  \E i, k, j \in ReadsAt(log) :
            /\ i < k /\ k < j /\ j = LastReadAt(log)
            /\ IsCmd(log[i], "Pasv") /\ Codes(log, i) = <<227>>
            /\ IsCmd(log[k], "Port") /\ Codes(log, k) = <<502>>
            /\ IsCmd(log[j], "List") /\ Codes(log, j) = <<150, 226>>
            /\ log[j + 1].ev = "accept" /\ log[j + 1].port = PortOf(log[i + 1])


\* Every value of the u16 `port` of exec_pasv.
PortRange == 0..65535

\* The split of exec_pasv, undone by the client's p1 * 256 + p2, for every
\* port number.
C12_SplitRoundTrip ==
    \A port \in PortRange :
        LET resp == PasvMode227(port)
        IN  /\ resp.p1 = port \div 256 /\ resp.p2 = port % 256
            /\ resp.p1 \in 0..255 /\ resp.p2 \in 0..255
            /\ PortOf(resp) = port

\* C12: the two port numbers of every 227 are in 0..255 and are port / 256
\* and port % 256 of the port the PASV bound, so that p1 * 256 + p2 is that
\* port, for every port number 0..65535; and once the 227 of a PASV is
\* written, the port it decodes to is the port of the listener held in the
\* transfer mode, a listener this session holds bound, so that a client
\* connecting to the decoded port waits on this session's listener.
C12_PasvTuple ==
    /\ C12_SplitRoundTrip
    /\ \A s \in Sessions :
          LET log == session[s].log
          IN  \A i \in 1..Len(log) :
                  IsSend(log[i], 227) =>
                      /\ log[i].p1 \in 0..255 /\ log[i].p2 \in 0..255
                      /\ PortOf(log[i]) \in Ports
                      /\ log[i].p1 = PortOf(log[i]) \div 256
                      /\ log[i].p2 = PortOf(log[i]) % 256
                      /\ (i = Len(log) /\ session[s].pc = "read") =>
                            /\ session[s].transfer_mode = Pasv(PortOf(log[i]))
                            /\ log[i].p1 = session[s].transfer_mode.port \div 256
                            /\ log[i].p2 = session[s].transfer_mode.port % 256
                            /\ PortOf(log[i]) \in session[s].listeners
                            /\ \A t \in Sessions \ {s} :
                                  PortOf(log[i]) \notin session[t].listeners
                            /\ backlog[PortOf(log[i])] < MaxBacklog
                                  => ENABLED ClientConnect(PortOf(log[i]))

\* C12 witness: a PASV bound port 65535 and answered 227 with (255,255); the
\* transfer mode holds the listener of port 65535.
C12_Witness ==
    LET log == session["s1"].log
    IN  /\ session["s1"].pc = "read"
        /\ log # <<>>
        /\ IsSend(log[Len(log)], 227)
        /\ log[Len(log)].p1 = 255 /\ log[Len(log)].p2 = 255
        /\ session["s1"].transfer_mode = Pasv(65535)


\* The lines of the end-to-end run, and the events of a session that serves
\* it with the passive listener on port p.
EndToEndLines == <<LineUserValid, LinePassValid, LinePasv, LineList, LineQuit>>
EndToEndRun(p) ==
    << SendEv(Resp(220)),
       ReadEv(Parsed[LineUserValid]), SendEv(Resp(331)),
       ReadEv(Parsed[LinePassValid]), SendEv(Resp(230)),
       ReadEv(Parsed[LinePasv]), SendEv(PasvMode227(p)),
       ReadEv(Parsed[LineList]), AcceptEv(p), SendEv(Resp(150)), DataEv, DataCloseEv,
       SendEv(Resp(226)),
       ReadEv(Parsed[LineQuit]), SendEv(Resp(221)) >>

\* The commands read so far are the first ones of the end-to-end run.
RunsEndToEnd(log) ==
    LET cmds == Cmds(log)
    IN  /\ Len(cmds) <= Len(EndToEndLines)
        /\ \A i \in 1..Len(cmds) : cmds[i] = ReadEv(Parsed[EndToEndLines[i]])

\* C20: the first event of every session is the write of 220, before any
\* command is read.  While a session is fed USER anonymous, PASS anonymous,
\* PASV, LIST, QUIT in this order, and no connection or listener operation
\* fails, its events are the first ones of: 220, USER, 331, PASS, 230, PASV,
\* 227 with a port, LIST, the accept of a connection made to that port, 150,
\* the listing on the data connection, its close, 226, QUIT, 221; nothing
\* else is written in between.  After the 221 the worker has ended and the
\* control connection is closed; it ends at no other point of the run.
C20_EndToEndRun ==
    \A s \in Sessions :
        LET log == session[s].log
        IN  /\ log # <<>> => IsSend(log[1], 220)
            /\ session[s].pc = "greet" => log = <<>>
            /\ (RunsEndToEnd(log) /\ session[s].exit \notin Failures) =>
                  /\ \E p \in Ports : log = SubSeq(EndToEndRun(p), 1, Len(log))
                  /\ session[s].pc = "closed" <=> Len(log) = Len(EndToEndRun(0))
                  /\ session[s].pc = "closed" => session[s].exit = "quit"

\* C20 witness: the whole run, ended by QUIT, with the connection closed.
C20_Witness ==
    /\ session["s1"].pc = "closed" /\ session["s1"].exit = "quit"
    /\ RunsEndToEnd(session["s1"].log)
    /\ \E p \in Ports : session["s1"].log = EndToEndRun(p)


\* ------------------------------------------------- claims on the parser
\* The line has been parsed; the tokens that follow its first token.
Done == output # <<>>
Rest == Tail(input.toks)

RECURSIVE Joined(_)
\* The characters of the tokens toks with one space between two of them.
Joined(toks) ==
    IF toks = <<>> THEN <<>>
    ELSE IF Len(toks) = 1 THEN toks[1]
    ELSE toks[1] \o <<" ">> \o Joined(Tail(toks))

Strs(toks) == [i \in 1..Len(toks) |-> to_string(toks[i])]

\* The first token names a verb of the command table: the verb's name and
\* its declared arity.
HasVerb == input.toks # <<>> /\ from_str(input.toks[1]) # 0
VerbName == to_string(CommandTable[from_str(input.toks[1])].name)
Arity == CommandTable[from_str(input.toks[1])].argc

Pieces ==
    {Joined(SubSeq(Rest, i, j)) : i \in 1..Len(Rest), j \in 1..Len(Rest)}
HasChars(arg) == \E cs \in Pieces : to_string(cs) = arg
CharsOf(arg) == CHOOSE cs \in Pieces : to_string(cs) = arg

Up(c) ==
    IF \E i \in 1..Len(LOWER) : LOWER[i] = c
    THEN UPPER[CHOOSE i \in 1..Len(LOWER) : LOWER[i] = c] ELSE c
Low(c) ==
    IF \E i \in 1..Len(UPPER) : UPPER[i] = c
    THEN LOWER[CHOOSE i \in 1..Len(UPPER) : UPPER[i] = c] ELSE c
Swap(c) == IF Up(c) = c THEN Low(c) ELSE Up(c)
SameIgnoringCase(a, b) ==
    Len(a) = Len(b) /\ \A i \in 1..Len(a) : Up(a[i]) = Up(b[i])

\* The verbs of the protocol.
ClosedVerbs ==
    { <<"Q","U","I","T">>, <<"U","S","E","R">>, <<"P","A","S","S">>,
      <<"P","A","S","V">>, <<"P","O","R","T">>, <<"L","I","S","T">> }
IsClosedVerb(tok) == \E w \in ClosedVerbs : SameIgnoringCase(tok, w)

\* C17 (as claimed): a line parses to a command only if its first token is,
\* ignoring case, one of QUIT, USER, PASS, PASV, PORT, LIST; a line with no
\* token and a line with any other first token parse to the error of code
\* 500.
C17_ClosedVerbSet ==
    Done =>
        /\ output[1].ok => (input.toks # <<>> /\ IsClosedVerb(input.toks[1]))
        /\ (input.toks = <<>> \/ ~IsClosedVerb(input.toks[1])) => output[1] = ParseErr(500)

\* The spellings of a token in upper, lower and swapped case.
CaseVariants(tok) ==
    { [i \in 1..Len(tok) |-> Up(tok[i])],
      [i \in 1..Len(tok) |-> Low(tok[i])],
      [i \in 1..Len(tok) |-> Swap(tok[i])] }

\* C18: a line parses to the same outcome, the same command with the same
\* arguments or the same error, whatever the letter case of its first
\* token; and the arguments of a parsed command spell the tokens that follow
\* the verb in the case they were typed in.
C18_CaseInsensitiveVerb ==
    (Done /\ input.toks # <<>>) =>
        /\ \A w \in CaseVariants(input.toks[1]) :
              get_cmd(LineOf(input.lead, [input.toks EXCEPT ![1] = w], input.seps) \o cCRLF)
                  = output[1]
        /\ output[1].ok => join(output[1].args) = to_string(Joined(Rest))

\* C18 witness: "pAss Bc" parsed to the command Pass with the argument "Bc".
C18_Witness ==
    /\ Done
    /\ input.toks = << <<"p","A","s","s">>, <<"B","c">> >>
    /\ output[1] = ParseOk("Pass", <<"Bc">>)


BindSucceeds(s) == PasvBind(s) /\ session'[s].pc = "pasv_store"

\* The worker of s can go on with what it is doing: start, execute the next
\* line of its client, finish the PASV or the LIST it is executing.
CanGoOn(s) ==
    /\ session[s].pc = "greet" => ENABLED Greeting(s)
    /\ Reading(s, MaxPeerCmds) => ENABLED PeerWorker(s)
    /\ session[s].pc = "pasv_bind" => ENABLED BindSucceeds(s)
    /\ session[s].pc = "pasv_store" => ENABLED PasvStore(s)
    /\ (session[s].pc = "list_accept" /\ backlog[session[s].port] > 0)
          => ENABLED ListAccept(s)
    /\ session[s].pc = "list_150" => ENABLED List150(s)
    /\ session[s].pc = "list_data" => ENABLED ListData(s)
    /\ session[s].pc = "list_226" => ENABLED List226(s)

\* C11 (as claimed): with two sessions served at once, whatever one of them
\* does (a command, a fatal error, a panic, a wait for a line or for a data
\* connection), the other is never kept from executing its commands: it can
\* start, read its next line and complete the PASV or LIST it is executing;
\* and no listener is held by two sessions.
C11_SessionsIndependent ==
    /\ \A s \in Sessions : CanGoOn(s)
    /\ \A s, t \in Sessions : s # t => session[s].listeners \cap session[t].listeners = {}


\* ------------------------------------------- claims on the data channel
\* Positions of the log where a data connection was accepted.
AcceptsAt(log) == {i \in 1..Len(log) : log[i].ev = "accept"}

\* C21: a passive listener accepts at most one data connection: between two
\* accepts of a session a new listener was advertised with 227.  While the
\* transfer runs the session accepts nothing, and once the LIST that
\* accepted is over, by 226 or by the end of the session, the listener is
\* discarded: the session holds no listener, the port is bound by nobody, no
\* connection waits on it and a new connection to it is refused.
C21_OneAcceptPerListener ==
    \A s \in Sessions :
        LET log == session[s].log
        IN  /\ \A i, j \in AcceptsAt(log) :
                  i < j => \E k \in (i + 1)..(j - 1) : IsSend(log[k], 227)
            /\ session[s].pc \in {"list_150", "list_data", "list_226"} =>
                  /\ ~ENABLED ListAccept(s)
                  /\ log[LastReadAt(log) + 1].ev = "accept"
            /\ ( /\ session[s].pc \in {"read", "closed"}
                 /\ ReadsAt(log) # {}
                 /\ IsCmd(log[LastReadAt(log)], "List")
                 /\ LastReadAt(log) < Len(log)
                 /\ log[LastReadAt(log) + 1].ev = "accept" )
               => LET port == log[LastReadAt(log) + 1].port
                  IN  /\ session[s].listeners = {}
                      /\ session[s].transfer_mode = NotSpecified
                      /\ session[s].stream = "none"
                      /\ port \notin BoundPorts(session)
                      /\ backlog[port] = 0
                      /\ ~ENABLED ClientConnect(port)
                      /\ ~ENABLED ListAccept(s)

\* C21 witness: the transfer of a LIST is running on the one connection that
\* was accepted, and a further connection made to the same port waits.
C21_Witness ==
    /\ session["s1"].pc = "list_226"
    /\ backlog[session["s1"].port] > 0
    /\ Len(SelectSeq(session["s1"].log, LAMBDA e : e.ev = "accept")) = 1


\* C22 (as claimed): in every state, the states inside a PASV that replaces
\* a listener included, a session holds at most one bound listener.
C22_AtMostOneListener ==
    \A s \in Sessions : Cardinality(session[s].listeners) <= 1


\* ------------------------------------------------ claims on the login
\* Positions of the log where 230 was written.
LoginsAt(log) == {i \in 1..Len(log) : IsSend(log[i], 230)}

\* C23: once 230 has been written the session is Loggedin with the name that
\* logged in, in every later state up to and including its end, whatever it
\* read since: USER or PASS with any argument, PASV, LIST, PORT, lines that do
\* not parse.  Every USER read after the login is answered 530 and every PASS
\* 230, whatever their arguments.
C23_LoggedinIsAbsorbing ==
    \A s \in Sessions :
        LET log == session[s].log
        IN  /\ session[s].login_status.tag = "Loggedin" <=> LoginsAt(log) # {}
            /\ LoginsAt(log) # {} =>
                  LET first == CHOOSE i \in LoginsAt(log) : \A j \in LoginsAt(log) : i <= j
                  IN  /\ ValidPass(log[first - 1])
                      /\ session[s].login_status = Loggedin(FAKE_USER)
                      /\ \A i \in ReadsAt(log) :
                            i > first =>
                                /\ IsCmd(log[i], "User") => Codes(log, i) = <<530>>
                                /\ IsCmd(log[i], "Pass") => Codes(log, i) = <<230>>

\* C23 witness: after the login a USER with another name was answered 530
\* and a PASS with a wrong password 230; the session is still logged in as
\* the user that logged in.
C23_Witness ==
    LET log == session["s1"].log
        cmds == Cmds(log)
    IN  /\ Len(cmds) = 4
        /\ ValidUser(cmds[1]) /\ ValidPass(cmds[2])
        /\ IsCmd(cmds[3], "User") /\ ~ValidUser(cmds[3])
        /\ IsCmd(cmds[4], "Pass") /\ ~ValidPass(cmds[4])
        /\ Codes(log, LastReadAt(log)) = <<230>>
        /\ session["s1"].login_status = Loggedin(FAKE_USER)
        /\ session["s1"].pc = "read"

C24_Step ==
    \A s \in Sessions :
        LET from == session[s].login_status
            to == session'[s].login_status
        IN  /\ to # from =>
                  /\ ReadsHere(s)
                  /\ IsCmd(ReadHere(s), "User") \/ IsCmd(ReadHere(s), "Pass")
                  /\ to = LoginTable(from, ReadHere(s).verb, ReadHere(s).args[1]).to
            /\ (to # from /\ to.tag = "Loggedin") =>
                  (from.tag = "Username" /\ from.name = to.name)
            /\ (ReadsHere(s) /\ ~(IsCmd(ReadHere(s), "User") \/ IsCmd(ReadHere(s), "Pass")))
                  => to = from

\* C24: the login status changes only in a step that reads a USER or a PASS,
\* and then to what the login table says for (login status, command,
\* argument); a step that reads PASV, LIST, PORT, QUIT or a line that does not
\* parse leaves it unchanged; and every step that enters Loggedin(u) starts
\* in Username(u) with the same u, never in Unloggedin.
C24_LoginChangesOnlyByTable == [][C24_Step]_vars

\* C24 witness: a session that read a line which does not parse and a PORT
\* while a username was given, and then logged in with PASS.
C24_Witness ==
    LET log == session["s1"].log
        cmds == Cmds(log)
    IN  /\ Len(cmds) = 4
        /\ ValidUser(cmds[1])
        /\ ~cmds[2].ok
        /\ IsCmd(cmds[3], "Port")
        /\ ValidPass(cmds[4])
        /\ session["s1"].login_status = Loggedin(FAKE_USER)


\* ------------------------------------------- claims on the worker loop
\* The ways a handler fails fatally: no port or no bind in PASV, a failed
\* accept, a failed write on the data connection, a panic.
HandlerFailures == {"pasv_fail", "accept_fail", "data_write", "panic"}

C25_Step ==
    \A s \in Sessions :
        /\ (session[s].pc # "closed" /\ session'[s].pc = "closed") =>
              /\ session'[s].exit \in {"quit", "ctrl_read", "ctrl_write"} \cup HandlerFailures
              /\ session'[s].exit = "quit" =>
                    (ReadsHere(s) /\ IsCmd(ReadHere(s), "Quit") /\ Answers(s, 221))
              /\ session'[s].exit = "ctrl_read" =>
                    (session[s].pc = "read" /\ session'[s].log = session[s].log)
              /\ session'[s].exit = "ctrl_write" =>
                    session'[s].log[Len(session'[s].log)].ev = "send"
              /\ session'[s].exit \in HandlerFailures =>
                    (session'[s].log = session[s].log
                       \/ (ReadsHere(s) /\ Len(session'[s].log) = Len(session[s].log) + 1))
        /\ (ReadsHere(s) /\ IsCmd(ReadHere(s), "Quit")) => session'[s].pc = "closed"
        /\ session[s].pc = "closed" => session'[s] = session[s]

C25_State ==
    \A s \in Sessions :
        /\ session[s].pc = "closed" <=> session[s].exit # ""
        /\ session[s].pc = "closed" =>
              /\ ~ENABLED Worker(s, Lines, MaxCmds)
              /\ session[s].listeners = {} /\ session[s].stream = "none"

\* C25: a worker ends in a step of one of three kinds: it reads QUIT and
\* writes 221; a handler fails (PASV finds no port or cannot bind, the accept
\* or the payload write of a LIST fails, the handler panics); reading from or
\* writing to the control connection fails.  Reading QUIT always ends it.
\* When the read of the control connection fails nothing is written; a
\* failed handler writes nothing either.  Once ended, the session never
\* changes again: it writes nothing and executes nothing, even when lines it
\* has not read are left.
C25_SessionEnd ==
    /\ [][C25_Step]_vars
    /\ []C25_State

\* C25 witness: a logged-in session in passive mode whose control connection
\* reached EOF: it ended without a response to that, with lines left unread.
C25_Witness ==
    LET self == session["s1"]
    IN  /\ self.pc = "closed" /\ self.exit = "ctrl_read"
        /\ Reads(self.log) < MaxCmds
        /\ IsSend(self.log[Len(self.log)], 227)


\* The worker of s reads and executes a line of its client.
ReadStep(s) ==
    \E line \in TransferLines :
        \/ Quit(s, line, MaxTransferCmds)
        \/ User(s, line, MaxTransferCmds)
        \/ Pass(s, line, MaxTransferCmds)
        \/ Port(s, line, MaxTransferCmds)
        \/ PasvCmd(s, line, MaxTransferCmds)
        \/ ListCmd(s, line, MaxTransferCmds)

C26_Step ==
    \A s \in Sessions :
        session[s].pc = "list_accept" =>
            /\ ~ReadsHere(s)
            /\ session'[s] # session[s] =>
                  \/ /\ session'[s].pc = "list_150"
                     /\ backlog[session[s].port] > 0
                     /\ backlog'[session[s].port] = backlog[session[s].port] - 1
                  \/ /\ session'[s].pc = "closed"
                     /\ session'[s].exit = "accept_fail"

C26_State ==
    \A s \in Sessions :
        session[s].pc = "list_accept" =>
            /\ ~ENABLED ReadStep(s)
            /\ backlog[session[s].port] = 0 => ~ENABLED ListAccept(s)

\* The LIST that s was executing is over: 226 was written, or the session
\* has ended.
ListOver(s) ==
    \/ session[s].pc = "closed"
    \/ /\ session[s].pc = "read"
       /\ IsSend(session[s].log[Len(session[s].log)], 226)

\* C26: while a LIST waits in accept() its session reads and executes no
\* line (a QUIT that was sent is not processed); it leaves the wait only by
\* accepting a connection that waits on its listener or by a failed accept,
\* which ends the session: there is no timeout, and with no connection the
\* accept never succeeds.  When a connection waits on the listener, a
\* worker that keeps running completes the LIST: it writes 226 or the
\* session ends.
C26_ListBlocksUntilAccept ==
    /\ [][C26_Step]_vars
    /\ []C26_State
    /\ \A s \in {"s1"} :
          (session[s].pc = "list_accept" /\ backlog[session[s].port] > 0) ~> ListOver(s)

\* C26 witness: a LIST waits in accept() with no connection made to its
\* port, while lines of the client are left unread.
C26_Witness ==
    /\ session["s1"].pc = "list_accept"
    /\ backlog[session["s1"].port] = 0
    /\ Reads(session["s1"].log) < MaxTransferCmds


\* C27: in every reachable state a session whose transfer mode is Pasv is
\* Loggedin, and a session that is Unloggedin or has only given a username
\* holds no bound listener, in the middle of a PASV included.
C27_PasvOnlyWhenLoggedin ==
    \A s \in Sessions :
        /\ session[s].transfer_mode.tag = "Pasv" => session[s].login_status.tag = "Loggedin"
        /\ session[s].login_status.tag \in {"Unloggedin", "Username"} =>
              /\ session[s].listeners = {}
              /\ session[s].pc \notin {"pasv_bind", "pasv_store"}

\* C27 witness: a PASV before the login was refused, the same session then
\* logged in and its next PASV left it listening.
C27_Witness ==
    LET log == session["s1"].log
    IN  /\ \E i \in ReadsAt(log) :
              /\ IsCmd(log[i], "Pasv")
              /\ Codes(log, i) = <<530>>
              /\ \A j \in ReadsAt(log) : i <= j
        /\ session["s1"].login_status.tag = "Loggedin"
        /\ session["s1"].transfer_mode.tag = "Pasv"
        /\ session["s1"].listeners # {}


\* The response codes a command can cause, by the first of them.
CodesFor(e) ==
    IF ~e.ok THEN {500, 501, 502}
    ELSE CASE e.verb = "Quit" -> {221}
           [] e.verb = "User" -> {331, 530}
           [] e.verb = "Pass" -> {230, 503, 530}
           [] e.verb = "Pasv" -> {227, 530}
           [] e.verb = "Port" -> {502}
           [] e.verb = "List" -> {150, 425, 530}
           [] OTHER -> {}

\* The LIST read at position i accepted a data connection.
Transfers(log, i) == \E k \in 1..Len(After(log, i)) : After(log, i)[k].ev = "accept"

\* The command read at position i of the log of s is over and the session
\* goes on: a later line was read, or the worker is about to read one.
Completed(s, i) ==
    LET log == session[s].log
    IN  \/ \E j \in ReadsAt(log) : j > i
        \/ session[s].pc = "read"

\* C28: responses and commands stay in step.  Every line a session has read
\* and got over without ending is answered by exactly one response, written
\* before the next line is read; the one exception is a LIST that accepted
\* its data connection, answered by 150 then 226.  No command ever has more
\* than these responses, and the first one is a response of that command.
\* A QUIT is answered by 221 alone, and nothing is read or written after it.
C28_ResponsesInStep ==
    \A s \in Sessions :
        LET log == session[s].log
        IN  \A i \in ReadsAt(log) :
                LET codes == Codes(log, i)
                IN  /\ Len(codes) <= 2
                    /\ Len(codes) > 0 => codes[1] \in CodesFor(log[i])
                    /\ Len(codes) = 2 => codes = <<150, 226>> /\ IsCmd(log[i], "List")
                    /\ Completed(s, i) =>
                          IF Transfers(log, i) THEN codes = <<150, 226>>
                          ELSE Len(codes) = 1 /\ codes[1] # 150
                    /\ IsCmd(log[i], "Quit") =>
                          /\ codes = <<221>>
                          /\ Len(log) = i + 1
                          /\ session[s].pc = "closed"

\* C28 witness: four commands answered in step, the last one a LIST that
\* transferred and was answered by 150 and 226.
C28_Witness ==
    LET log == session["s1"].log
        at == LastReadAt(log)
    IN  /\ session["s1"].pc = "read"
        /\ Reads(log) = 4
        /\ IsCmd(log[at], "List")
        /\ Codes(log, at) = <<150, 226>>
        /\ \A i \in ReadsAt(log) \ {at} : Len(Codes(log, i)) = 1


\* The port advertised by the 227 event e.
Advertised(e) == e.p1 * 256 + e.p2

\* The accept at position i of log was made on the port of the latest 227
\* written before it.
AcceptsAdvertised(log, i) ==
    \E j \in 1..(i - 1) :
        /\ IsSend(log[j], 227)
        /\ Advertised(log[j]) = log[i].port
        /\ \A k \in (j + 1)..(i - 1) : ~IsSend(log[k], 227)

\* C29: with two sessions served at once and every interleaving of their
\* PASV, LIST and termination steps, no port is held by the listeners of two
\* sessions at the same time; a session that accepts a data connection does
\* so on a listener it holds itself and no other session holds, and the port
\* is the one its own latest 227 advertised.
C29_ListenersDisjoint ==
    \A s \in Sessions :
        /\ \A t \in Sessions \ {s} : session[s].listeners \cap session[t].listeners = {}
        /\ session[s].pc = "closed" => session[s].listeners = {}
        /\ session[s].pc = "list_accept" =>
              /\ session[s].port \in session[s].listeners
              /\ \A t \in Sessions \ {s} : session[s].port \notin session[t].listeners
        /\ \A i \in AcceptsAt(session[s].log) : AcceptsAdvertised(session[s].log, i)

\* C29 witness: one session has accepted a data connection on its port while
\* the other session listens on another port.
C29_Witness ==
    /\ session["s1"].pc = "list_150"
    /\ session["s2"].transfer_mode.tag = "Pasv"
    /\ session["s2"].listeners # {}
    /\ session["s1"].listeners # {}


\* C30 (as claimed): with two sessions served at once, a PASV that has picked
\* its port is never bound to fail: in every interleaving with the PASV of
\* the other session the port it picked is still free when it binds, so the
\* bind can succeed and 227 be answered.
C30_PickedPortStillFree ==
    \A s \in Sessions :
        session[s].pc = "pasv_bind" => TRUE \in bind(session, session[s].port)


\* The ports s is bound to: those of its listeners.
HeldPorts(s) == session[s].listeners

\* The step ends the session of s.
Ends(s) == session[s].pc # "closed" /\ session'[s].pc = "closed"

C31_Step ==
    \A s \in Sessions :
        Ends(s) =>
            \A p \in HeldPorts(s) :
                /\ p \notin BoundPorts(session')
                /\ backlog'[p] = 0
                /\ p \in pick_unused_port(session')
                /\ TRUE \in bind(session', p)

C31_State ==
    \A s \in Sessions :
        session[s].pc = "closed" =>
            /\ session[s].listeners = {}
            /\ session[s].stream = "none"
            /\ session[s].port = 0

\* C31: no listener outlives its session.  In the step that ends a session,
\* for whatever reason, every port one of its listeners was bound to stops
\* being bound, the connections waiting on it are reset, and the port can be
\* picked and bound by another session; an ended session holds no listener
\* and no data connection.
C31_NoListenerOutlivesSession ==
    /\ [][C31_Step]_vars
    /\ []C31_State

\* C31 witness: a session ended by the failed write of a listing, after it
\* had accepted the data connection on its listener.
C31_Witness ==
    LET self == session["s1"]
    IN  /\ self.pc = "closed" /\ self.exit = "data_write"
        /\ AcceptsAt(self.log) # {}
        /\ \E i \in 1..Len(self.log) : IsSend(self.log[i], 227)


====
